---------------------------- MODULE Spec2Model ----------------------------
(***************************************************************************)
(* Model of show_diff_proj.py: the DiffractionWindow controller (image     *)
(* buffer, two-press rectangle selection, projection popup).               *)
(*                                                                         *)
(* Conventions                                                             *)
(*  - Python None is the empty sequence <<>>, a present value v is <<v>>.  *)
(*  - Mouse coordinates (event.xdata, event.ydata) are floats; the model   *)
(*    keeps them in half units: the integer c stands for the float c/2.    *)
(*    All arithmetic the handlers do on them (differences, min, max) is    *)
(*    exact on such values; int() is modelled by PyInt.                    *)
(*  - A matplotlib Rectangle is [id, x, y, w, h]; id is the identity of    *)
(*    the Python object, ax_patches the ids of the patches that are        *)
(*    children of the image axes.                                          *)
(*  - An array is [ndim, dtype, pix]: pix is a sequence of rows, a row a   *)
(*    sequence of integers (ndim = 2) or of channel tuples (ndim = 3).     *)
(***************************************************************************)
EXTENDS Integers, Sequences, FiniteSets, TLC

VARIABLES
    running,          \* the Qt event loop runs (app.exec() has not returned)
    image,            \* self.image
    start_point,      \* self.start_point
    rect_patch,       \* self.rect_patch (preview Rectangle)
    last_rect_patch,  \* self.last_rect_patch (committed Rectangle)
    btn_enabled,      \* self.showProjBtn.isEnabled()
    coord_label,      \* self.coord_label.text()
    canvas_visible,   \* self.canvas.isVisible()
    axes_image,       \* the array drawn by imshow on self.canvas.axes
    ax_patches,       \* ids of the patches held by self.canvas.axes
    dialog,           \* data of the open modal PlotDialog
    detached_remove_raises,
                      \* the installed matplotlib makes Artist.remove() raise
                      \* on a patch that ax.cla() has dropped
    event             \* the event the loop dispatched last

vars == <<running, image, start_point, rect_patch, last_rect_patch,
          btn_enabled, coord_label, canvas_visible, axes_image,
          ax_patches, dialog, detached_remove_raises, event>>

\* The controller state the handlers read and write.
ctrl == <<image, start_point, rect_patch, last_rect_patch, btn_enabled,
          coord_label, canvas_visible, axes_image, ax_patches>>

None == <<>>
Some(v) == <<v>>
Val(o) == o[1]

----------------------------------------------------------------------------
(* Bounds of the model *)

\* Longest row of the arrays the normalization is checked on.
MaxLen == 3

----------------------------------------------------------------------------
(* Numbers *)

Abs(n) == IF n < 0 THEN -n ELSE n
Min2(a, b) == IF a <= b THEN a ELSE b
Max2(a, b) == IF a >= b THEN a ELSE b

\* PyInt rounding down (math.floor) instead of toward zero: -0.5 gives -1.
PyIntFloor(c) == c \div 2

\* int(c/2) for the float c/2: Python's int() truncates toward zero.
PyInt(c) == IF c >= 0 THEN c \div 2 ELSE -((-c) \div 2)

\* Value range of the integer dtypes the decoders return.
DTypeLo(dt) ==
    CASE dt = "uint8" -> 0
      [] dt = "uint16" -> 0
      [] dt = "int8" -> -128
      [] dt = "int16" -> -32768
      [] dt = "int32" -> -2147483647 - 1

DTypeHi(dt) ==
    CASE dt = "uint8" -> 255
      [] dt = "uint16" -> 65535
      [] dt = "int8" -> 127
      [] dt = "int16" -> 32767
      [] dt = "int32" -> 2147483647

\* Fixed-width subtraction a - b of two values of dtype dt: numpy wraps the
\* result modulo 2^w (silently for arrays, with a RuntimeWarning for scalars).
WrapSub(dt, a, b) ==
    LET d == a - b
    IN  IF d > DTypeHi(dt) THEN d - (DTypeHi(dt) - DTypeLo(dt)) - 1
        ELSE IF d < DTypeLo(dt) THEN d + (DTypeHi(dt) - DTypeLo(dt)) + 1
        ELSE d

\* True division of two integers, as numpy's float64 result: a quotient
\* <<"q", n, d>> with d > 0, or nan (0/0), or inf (n/0).
TrueDiv(n, d) ==
    IF d = 0 THEN (IF n = 0 THEN <<"nan", 0, 0>> ELSE <<"inf", n, 0>>)
    ELSE IF d < 0 THEN <<"q", -n, -d>>
    ELSE <<"q", n, d>>

\* 2^24: integers of larger magnitude are not all float32 values.
F32Exact == 16777216

RECURSIVE F32Ulp(_, _)
F32Ulp(a, u) == IF a \div u < F32Exact THEN u ELSE F32Ulp(a, 2 * u)

\* The float32 nearest to the integer n (round half to even).
F32(n) ==
    LET a == Abs(n) IN
    IF a < F32Exact THEN n
    ELSE LET u == F32Ulp(a, 1)
             q == a \div u
             r == a % u
             up == 2 * r > u \/ (2 * r = u /\ q % 2 = 1)
             m == (IF up THEN q + 1 ELSE q) * u
         IN  IF n < 0 THEN -m ELSE m

----------------------------------------------------------------------------
(* Arrays *)

Height(a) == Len(a.pix)
Width(a) == IF Len(a.pix) = 0 THEN 0 ELSE Len(a.pix[1])

RECURSIVE SeqMin(_)
SeqMin(s) == IF Len(s) = 1 THEN s[1] ELSE Min2(s[1], SeqMin(Tail(s)))
RECURSIVE SeqMax(_)
SeqMax(s) == IF Len(s) = 1 THEN s[1] ELSE Max2(s[1], SeqMax(Tail(s)))

\* np.min(img), np.max(img) of a 2D array.
ArrMin(a) == SeqMin([r \in 1..Height(a) |-> SeqMin(a.pix[r])])
ArrMax(a) == SeqMax([r \in 1..Height(a) |-> SeqMax(a.pix[r])])


\* (img - np.min(img)) / (np.max(img) - np.min(img)) on a 2D integer array:
\* both subtractions are done in the array's own dtype, the division in
\* float64.
Normalize(a) ==
    LET lo == ArrMin(a)
        hi == ArrMax(a)
        den == WrapSub(a.dtype, hi, lo)
    IN  [ndim |-> 2, dtype |-> "float64",
         pix |-> [r \in 1..Height(a) |->
                    [c \in 1..Width(a) |->
                       TrueDiv(WrapSub(a.dtype, a.pix[r][c], lo), den)]]]

\* The subtraction raises TypeError on a boolean array (PIL mode "1").
NormalizeRaises(a) == a.dtype = "bool"

\* PIL's RGB -> L conversion of one pixel: (R*19595 + G*38470 + B*7471 +
\* 0x8000) >> 16.
LumaOf(p) == (p[1] * 19595 + p[2] * 38470 + p[3] * 7471 + 32768) \div 65536

\* np.array(Image.fromarray(img).convert("L")) of an H x W x 3 uint8 array.
ConvertL(a) ==
    [ndim |-> 2, dtype |-> "uint8",
     pix |-> [r \in 1..Height(a) |->
                [c \in 1..Width(a) |-> LumaOf(a.pix[r][c])]]]

\* One bound of a Python slice lo:hi over an axis of length n.
SliceIndex(i, n) ==
    IF i < 0 THEN Max2(i + n, 0) ELSE Min2(i, n)

\* The 0-based indices selected by the slice lo:hi over an axis of length n.
SliceRange(lo, hi, n) == {i \in 0..(n - 1) : SliceIndex(lo, n) <= i /\ i < SliceIndex(hi, n)}

\* Sum of row[c0+1 .. c1] accumulated in float32, left to right, onto acc (rows
\* of fewer than 8 elements are summed by numpy in this order).
RECURSIVE SumF32(_, _, _, _)
SumF32(row, c0, c1, acc) ==
    IF c0 >= c1 THEN acc
    ELSE SumF32(row, c0 + 1, c1, F32(acc + F32(row[c0 + 1])))

\* RowSums with the axes swapped (np.sum(..., axis=0)): one sum per column.
RowSumsAxis0(a, x0, x1, y0, y1) ==
    LET rs == SliceRange(y0, y1, Height(a))
        cs == SliceRange(x0, x1, Width(a))
        r0 == SliceIndex(y0, Height(a))
        c0 == SliceIndex(x0, Width(a))
    IN  [j \in 1..Cardinality(cs) |->
            SumF32([i \in 1..Cardinality(rs) |-> a.pix[r0 + i][c0 + j]],
                   0, Cardinality(rs), 0)]

\* img[y0:y1, x0:x1] followed by np.sum(region.astype(np.float32), axis=1).
RowSums(a, x0, x1, y0, y1) ==
    LET rs == SliceRange(y0, y1, Height(a))
        cs == SliceRange(x0, x1, Width(a))
        r0 == SliceIndex(y0, Height(a))
        c0 == SliceIndex(x0, Width(a))
    IN  [i \in 1..Cardinality(rs) |->
            SumF32(a.pix[r0 + i], c0, c0 + Cardinality(cs), 0)]

\* CropX0 without the min: the x of the first corner, int(points[0, 0]).
CropX0FirstCorner(p) == PyInt(p.x)

\* self.last_rect_patch.get_bbox().get_points() reduced by min/max and int().
CropX0(p) == PyInt(Min2(p.x, p.x + p.w))
CropX1(p) == PyInt(Max2(p.x, p.x + p.w))
CropY0(p) == PyInt(Min2(p.y, p.y + p.h))
CropY1(p) == PyInt(Max2(p.y, p.y + p.h))

\* PixelSums without the conversion of lines 224-225: a multi-channel pixel
\* counts with the sum of its channels.
PixelSumsAllChannels(img, p) ==
    LET g == IF img.ndim > 2
               THEN [ndim |-> 2, dtype |-> img.dtype,
                     pix |-> [r \in 1..Height(img) |->
                                [c \in 1..Width(img) |->
                                   img.pix[r][c][1] + img.pix[r][c][2] + img.pix[r][c][3]]]]
               ELSE img
    IN  RowSums(g, CropX0(p), CropX1(p), CropY0(p), CropY1(p))

\* The pixel_sums show_projection hands to PlotDialog.
PixelSums(img, p) ==
    LET g == IF img.ndim > 2 THEN ConvertL(img) ELSE img
    IN  RowSums(g, CropX0(p), CropX1(p), CropY0(p), CropY1(p))

----------------------------------------------------------------------------
(* Files the user can pick in the dialog, and what the decoders return *)

Gray4x4 ==
    [ndim |-> 2, dtype |-> "uint8",
     pix |-> << <<0, 1, 2, 3>>, <<4, 5, 6, 7>>,
                <<8, 9, 10, 11>>, <<12, 13, 14, 15>> >>]

Wide4x5 ==
    [ndim |-> 2, dtype |-> "int32",
     pix |-> << <<3, 0, 2, 1, 9>>, <<16777216, 1, 0, 0, 4>>,
                <<7, 7, 1, 1, 2>>, <<5, 6, 7, 8, 9>> >>]

Flat2x2 ==
    [ndim |-> 2, dtype |-> "uint8", pix |-> << <<7, 7>>, <<7, 7>> >>]

Rgb2x2 ==
    [ndim |-> 3, dtype |-> "uint8",
     pix |-> << << <<255, 0, 0>>, <<0, 1, 0>> >>,
                << <<0, 0, 0>>, <<10, 20, 30>> >> >>]

Mask2x2 ==
    [ndim |-> 2, dtype |-> "bool", pix |-> << <<0, 1>>, <<1, 0>> >>]

Files ==
    { [name |-> "gray", suffix |-> ".png"],
      [name |-> "wide", suffix |-> ".tif"],
      [name |-> "flat", suffix |-> ".png"],
      [name |-> "rgb", suffix |-> ".jpeg"],
      [name |-> "mask", suffix |-> ".png"],
      [name |-> "corrupt", suffix |-> ".png"],
      [name |-> "corrupt", suffix |-> ".tiff"] }

\* What is stored in the file f; None for a file no decoder can read.
Content(f) ==
    CASE f.name = "gray" -> Some(Gray4x4)
      [] f.name = "wide" -> Some(Wide4x5)
      [] f.name = "flat" -> Some(Flat2x2)
      [] f.name = "rgb" -> Some(Rgb2x2)
      [] f.name = "mask" -> Some(Mask2x2)
      [] f.name = "array" -> Some(f.data)
      [] OTHER -> None

\* np.array(Image.open(file_path)): None stands for the exception raised.
PILOpen(f) == Content(f)
\* fabio.open(file_path).data: None stands for the exception raised.
FabioOpen(f) == Content(f)

\* Lines 195-198: the decoder is chosen by the suffix.
Decode(f) ==
    IF f.suffix \in {".png", ".jpeg"} THEN PILOpen(f) ELSE FabioOpen(f)

----------------------------------------------------------------------------
(* Mouse positions *)

\* Sampled event.xdata and event.ydata, in half units: -0.5, 1.0, 4.0 and
\* 0.0, 1.5, 3.0.
PosX == {-1, 2, 8}
PosY == {0, 3, 6}

\* The data limits of the image axes: imshow sets them to the pixel extent
\* [-0.5, W-0.5] x [-0.5, H-0.5]; after ax.cla() alone they are [0,1] x [0,1].
XLim == IF axes_image = None THEN <<0, 2>>
        ELSE <<-1, 2 * Width(Val(axes_image)) - 1>>
YLim == IF axes_image = None THEN <<0, 2>>
        ELSE <<-1, 2 * Height(Val(axes_image)) - 1>>

\* The sampled positions. Patches that stay in the fields after remove() has
\* raised multiply the states, so under such a matplotlib two positions are
\* sampled, both inside the axes of every image.
PosRaising == {<<-1, 3>>, <<2, 0>>}
Positions == IF detached_remove_raises THEN PosRaising ELSE PosX \X PosY

\* Positions at which a mouse event has event.inaxes == self.canvas.axes.
InAxes ==
    {q \in Positions : /\ XLim[1] <= q[1] /\ q[1] <= XLim[2]
                          /\ YLim[1] <= q[2] /\ q[2] <= YLim[2]}

----------------------------------------------------------------------------
(* Rectangles *)

PatchIds(o) == IF o = None THEN {} ELSE {Val(o).id}

\* Identity of a newly constructed Rectangle: one no live object has.
NewId ==
    LET used == ax_patches \cup PatchIds(rect_patch) \cup PatchIds(last_rect_patch)
    IN  CHOOSE i \in 1..(Cardinality(used) + 1) : i \notin used

\* patches.Rectangle((x0, y0), width, height, ...)
Rectangle(id, x0, y0, width, height) ==
    [id |-> id, x |-> x0, y |-> y0, w |-> width, h |-> height]

MouseText == [text |-> "Mouse: ", nums |-> <<>>]
StartText(x0, y0) == [text |-> "Rect: x0= y0=", nums |-> <<PyInt(x0), PyInt(y0)>>]
RectText(x0, y0, x1, y1) ==
    [text |-> "Rect: x0= y0=, x1=, y1=",
     nums |-> <<PyInt(x0), PyInt(y0), PyInt(x1), PyInt(y1)>>]

\* o.remove() raises NotImplementedError: o is a patch that ax.cla() dropped
\* from the axes, and the installed matplotlib (the repository pins no
\* version) has cla() take the remove method from the children it drops.
\* Older releases return from such a call without effect.
RemoveRaises(o) ==
    detached_remove_raises /\ o # None /\ PatchIds(o) \cap ax_patches = {}

----------------------------------------------------------------------------
(* Handlers of DiffractionWindow *)

\* PressStart without line 129, self.showProjBtn.setEnabled(False).
PressStartKeepsButton(x, y) ==
    /\ start_point' = Some(<<x, y>>)
    /\ coord_label' = StartText(x, y)
    /\ IF last_rect_patch # None /\ ~RemoveRaises(last_rect_patch)
         THEN /\ ax_patches' = ax_patches \ PatchIds(last_rect_patch)
              /\ last_rect_patch' = None
         ELSE \* nothing to remove, or line 132 raises and 133 is not reached
              UNCHANGED <<ax_patches, last_rect_patch>>
    /\ UNCHANGED <<image, rect_patch, canvas_visible, axes_image, btn_enabled>>

\* Lines 124-134: the press that starts a selection.
PressStart(x, y) ==
    /\ start_point' = Some(<<x, y>>)
    /\ coord_label' = StartText(x, y)
    /\ btn_enabled' = FALSE
    /\ IF last_rect_patch # None /\ ~RemoveRaises(last_rect_patch)
         THEN /\ ax_patches' = ax_patches \ PatchIds(last_rect_patch)
              /\ last_rect_patch' = None
         ELSE \* nothing to remove, or line 132 raises and 133 is not reached
              UNCHANGED <<ax_patches, last_rect_patch>>
    /\ UNCHANGED <<image, rect_patch, canvas_visible, axes_image>>

\* PressCommit without line 147, self.start_point = None.
PressCommitKeepsStart(x, y) ==
    LET x0 == Val(start_point)[1]
        y0 == Val(start_point)[2]
        new == Rectangle(NewId, x0, y0, x - x0, y - y0)
    IN  /\ last_rect_patch' = Some(new)
        /\ IF RemoveRaises(rect_patch)
             THEN /\ ax_patches' = ax_patches \cup {new.id}
                  /\ UNCHANGED <<rect_patch, btn_enabled>>
             ELSE /\ rect_patch' = None
                  /\ ax_patches' = (ax_patches \cup {new.id}) \ PatchIds(rect_patch)
                  /\ btn_enabled' = TRUE
        /\ UNCHANGED <<image, start_point, coord_label, canvas_visible, axes_image>>

\* Lines 135-154: the press that commits the rectangle.
PressCommit(x, y) ==
    LET x0 == Val(start_point)[1]
        y0 == Val(start_point)[2]
        new == Rectangle(NewId, x0, y0, x - x0, y - y0)
    IN  /\ last_rect_patch' = Some(new)
        /\ start_point' = None
        /\ IF RemoveRaises(rect_patch)
             THEN \* line 150 raises: lines 151-154 are not reached
                  /\ ax_patches' = ax_patches \cup {new.id}
                  /\ UNCHANGED <<rect_patch, btn_enabled>>
             ELSE /\ rect_patch' = None
                  /\ ax_patches' = (ax_patches \cup {new.id}) \ PatchIds(rect_patch)
                  /\ btn_enabled' = TRUE
        /\ UNCHANGED <<image, coord_label, canvas_visible, axes_image>>

\* imagePressed(event); inaxes is event.inaxes == self.canvas.axes.
imagePressed(inaxes, x, y) ==
    IF ~inaxes THEN UNCHANGED ctrl
    ELSE IF start_point = None THEN PressStart(x, y)
    ELSE PressCommit(x, y)

\* imageOnMotion tracking the pointer in the status text while no selection
\* is in progress.
imageOnMotionTracksIdle(inaxes, x, y) ==
    IF ~inaxes THEN UNCHANGED ctrl
    ELSE IF start_point = None
      THEN /\ coord_label' = StartText(x, y)
           /\ UNCHANGED <<image, start_point, rect_patch, last_rect_patch,
                          btn_enabled, canvas_visible, axes_image, ax_patches>>
    ELSE LET x0 == Val(start_point)[1]
             y0 == Val(start_point)[2]
         IN  /\ coord_label' = RectText(x0, y0, x, y)
             /\ IF rect_patch # None
                  THEN /\ rect_patch' =
                            Some(Rectangle(Val(rect_patch).id, x0, y0, x - x0, y - y0))
                       /\ UNCHANGED ax_patches
                  ELSE LET new == Rectangle(NewId, x0, y0, x - x0, y - y0)
                       IN  /\ rect_patch' = Some(new)
                           /\ ax_patches' = ax_patches \cup {new.id}
             /\ UNCHANGED <<image, start_point, last_rect_patch, btn_enabled,
                            canvas_visible, axes_image>>

\* imageOnMotion(event)
imageOnMotion(inaxes, x, y) ==
    IF ~inaxes \/ start_point = None THEN UNCHANGED ctrl
    ELSE LET x0 == Val(start_point)[1]
             y0 == Val(start_point)[2]
         IN  /\ coord_label' = RectText(x0, y0, x, y)
             /\ IF rect_patch # None
                  THEN /\ rect_patch' =
                            Some(Rectangle(Val(rect_patch).id, x0, y0, x - x0, y - y0))
                       /\ UNCHANGED ax_patches
                  ELSE LET new == Rectangle(NewId, x0, y0, x - x0, y - y0)
                       IN  /\ rect_patch' = Some(new)
                           /\ ax_patches' = ax_patches \cup {new.id}
             /\ UNCHANGED <<image, start_point, last_rect_patch, btn_enabled,
                            canvas_visible, axes_image>>

\* imageReleased(event)
imageReleased(inaxes) == UNCHANGED ctrl

\* ShowImage without line 214, self.showProjBtn.setEnabled(False).
ShowImageKeepsButton(img, result) ==
    /\ image' = Some(img)
    /\ IF img.ndim = 2 /\ NormalizeRaises(img)
         THEN /\ ax_patches' = {}
              /\ axes_image' = None
              /\ result = "render_error"
              /\ UNCHANGED <<coord_label, btn_enabled, canvas_visible>>
         ELSE /\ ax_patches' = {}
              /\ axes_image' = Some(IF img.ndim = 2 THEN Normalize(img) ELSE img)
              /\ canvas_visible' = TRUE
              /\ coord_label' = MouseText
              /\ UNCHANGED btn_enabled
              /\ result = "ok"
    /\ UNCHANGED <<start_point, rect_patch, last_rect_patch>>

\* Lines 200-214 with self.image already replaced by img; result is the
\* outcome recorded for the event.
ShowImage(img, result) ==
    /\ image' = Some(img)
    /\ IF img.ndim = 2 /\ NormalizeRaises(img)
         THEN \* ax.cla() has run, the exception leaves the handler at line 205
              /\ ax_patches' = {}
              /\ axes_image' = None
              /\ result = "render_error"
              /\ UNCHANGED <<coord_label, btn_enabled, canvas_visible>>
         ELSE /\ ax_patches' = {}
              /\ axes_image' = Some(IF img.ndim = 2 THEN Normalize(img) ELSE img)
              /\ canvas_visible' = TRUE
              /\ coord_label' = MouseText
              /\ btn_enabled' = FALSE
              /\ result = "ok"
    /\ UNCHANGED <<start_point, rect_patch, last_rect_patch>>

\* browseFile with lines 211-214 moved out of the if: a cancelled dialog
\* resets the status text and disables the button.
browseFileCancelResets(file_path, result) ==
    IF file_path = None
      THEN /\ result = "cancel"
           /\ coord_label' = MouseText
           /\ btn_enabled' = FALSE
           /\ UNCHANGED <<image, start_point, rect_patch, last_rect_patch,
                          canvas_visible, axes_image, ax_patches>>
    ELSE IF Decode(Val(file_path)) = None
      THEN result = "decode_error" /\ UNCHANGED ctrl
    ELSE ShowImage(Val(Decode(Val(file_path))), result)

\* browseFile dropping the old buffer before it decodes (self.image = None
\* ahead of line 195): a failed decode leaves no image.
browseFileDecodeClears(file_path, result) ==
    IF file_path = None
      THEN result = "cancel" /\ UNCHANGED ctrl
    ELSE IF Decode(Val(file_path)) = None
      THEN /\ result = "decode_error"
           /\ image' = None
           /\ UNCHANGED <<start_point, rect_patch, last_rect_patch, btn_enabled,
                          coord_label, canvas_visible, axes_image, ax_patches>>
    ELSE ShowImage(Val(Decode(Val(file_path))), result)

\* browseFile(); file_path is what QFileDialog.getOpenFileName returned (None
\* for the empty string of a cancelled dialog).
browseFile(file_path, result) ==
    IF file_path = None
      THEN result = "cancel" /\ UNCHANGED ctrl
    ELSE IF Decode(Val(file_path)) = None
      THEN \* the decoder raises before self.image is assigned
           result = "decode_error" /\ UNCHANGED ctrl
    ELSE ShowImage(Val(Decode(Val(file_path))), result)

\* show_projection guarding on the image only: with no committed rectangle it
\* opens the popup on an empty projection.
show_projectionNoRectGuard ==
    /\ UNCHANGED ctrl
    /\ IF image = None
         THEN dialog' = None
         ELSE dialog' = Some(IF last_rect_patch = None THEN <<>>
                             ELSE PixelSums(Val(image), Val(last_rect_patch)))

\* show_projection resetting the selection once the projection is shown: the
\* committed Rectangle is removed and the button disabled.
show_projectionConsumesRect ==
    IF image = None \/ last_rect_patch = None
      THEN dialog' = None /\ UNCHANGED ctrl
      ELSE /\ dialog' = Some(PixelSums(Val(image), Val(last_rect_patch)))
           /\ last_rect_patch' = None
           /\ ax_patches' = ax_patches \ PatchIds(last_rect_patch)
           /\ btn_enabled' = FALSE
           /\ UNCHANGED <<image, start_point, rect_patch, coord_label,
                          canvas_visible, axes_image>>

\* show_projection(): up to dialog.exec(), which blocks until the dialog closes.
show_projection ==
    /\ UNCHANGED ctrl
    /\ IF image = None \/ last_rect_patch = None
         THEN dialog' = None
         ELSE dialog' = Some(PixelSums(Val(image), Val(last_rect_patch)))

----------------------------------------------------------------------------
(* The application *)

Init ==
    /\ running = TRUE
    /\ image = None
    /\ start_point = None
    /\ rect_patch = None
    /\ last_rect_patch = None
    /\ btn_enabled = FALSE
    /\ coord_label = MouseText
    /\ canvas_visible = FALSE
    /\ axes_image = None
    /\ ax_patches = {}
    /\ dialog = None
    /\ detached_remove_raises \in BOOLEAN
    /\ event = [kind |-> "init", pos |-> None]

\* The main window takes input: the loop runs and no modal dialog is open.
Interactive == running /\ dialog = None

Results == {"cancel", "decode_error", "render_error", "ok"}

\* A mouse event on the canvas, in the axes at q or outside them (xdata and
\* ydata are then None). A hidden canvas receives no mouse events.
Press ==
    /\ Interactive /\ canvas_visible
    /\ \/ \E q \in InAxes :
             /\ imagePressed(TRUE, q[1], q[2])
             /\ event' = [kind |-> "press", pos |-> Some(q)]
       \/ /\ imagePressed(FALSE, 0, 0)
          /\ event' = [kind |-> "press", pos |-> None]
    /\ UNCHANGED <<running, dialog, detached_remove_raises>>

Motion ==
    /\ Interactive /\ canvas_visible
    /\ \/ \E q \in InAxes :
             /\ imageOnMotion(TRUE, q[1], q[2])
             /\ event' = [kind |-> "motion", pos |-> Some(q)]
       \/ /\ imageOnMotion(FALSE, 0, 0)
          /\ event' = [kind |-> "motion", pos |-> None]
    /\ UNCHANGED <<running, dialog, detached_remove_raises>>

Release ==
    /\ Interactive /\ canvas_visible
    /\ \E inaxes \in BOOLEAN : imageReleased(inaxes)
    /\ event' = [kind |-> "release", pos |-> None]
    /\ UNCHANGED <<running, dialog, detached_remove_raises>>

\* File > Select an Image...
OpenImage ==
    /\ Interactive
    /\ \E file_path \in {None} \cup {Some(f) : f \in Files} :
         \E result \in Results :
            /\ browseFile(file_path, result)
            /\ event' = [kind |-> result, pos |-> None]
    /\ UNCHANGED <<running, dialog, detached_remove_raises>>

\* A click on the Show Projection Profile button; a disabled button emits no
\* clicked signal.
TriggerProjection ==
    /\ Interactive /\ btn_enabled
    /\ show_projection
    /\ event' = [kind |-> "trigger", pos |-> None]
    /\ UNCHANGED <<running, detached_remove_raises>>

\* The user dismisses the modal PlotDialog; dialog.exec() and show_projection
\* return, the PlotDialog and its data are dropped.
CloseDialog ==
    /\ running /\ dialog # None
    /\ dialog' = None
    /\ event' = [kind |-> "close", pos |-> None]
    /\ UNCHANGED <<ctrl, running, detached_remove_raises>>

\* The Quit button: QApplication.quit.
Quit ==
    /\ Interactive
    /\ running' = FALSE
    /\ event' = [kind |-> "quit", pos |-> None]
    /\ UNCHANGED <<ctrl, dialog, detached_remove_raises>>

Next ==
    \/ Press
    \/ Motion
    \/ Release
    \/ OpenImage
    \/ TriggerProjection
    \/ CloseDialog
    \/ Quit

Spec == Init /\ [][Next]_vars

----------------------------------------------------------------------------
(* The handlers called directly (a programmatic call of the slot or of the *)
(* matplotlib callback): in any widget state, at any sampled position.     *)

DirectPress ==
    /\ Interactive
    /\ \/ \E q \in Positions :
             /\ imagePressed(TRUE, q[1], q[2])
             /\ event' = [kind |-> "press", pos |-> Some(q)]
       \/ /\ imagePressed(FALSE, 0, 0)
          /\ event' = [kind |-> "press", pos |-> None]
    /\ UNCHANGED <<running, dialog, detached_remove_raises>>

DirectMotion ==
    /\ Interactive
    /\ \/ \E q \in Positions :
             /\ imageOnMotion(TRUE, q[1], q[2])
             /\ event' = [kind |-> "motion", pos |-> Some(q)]
       \/ /\ imageOnMotion(FALSE, 0, 0)
          /\ event' = [kind |-> "motion", pos |-> None]
    /\ UNCHANGED <<running, dialog, detached_remove_raises>>

DirectRelease ==
    /\ Interactive
    /\ \E inaxes \in BOOLEAN : imageReleased(inaxes)
    /\ event' = [kind |-> "release", pos |-> None]
    /\ UNCHANGED <<running, dialog, detached_remove_raises>>

DirectTrigger ==
    /\ Interactive
    /\ show_projection
    /\ event' = [kind |-> "trigger", pos |-> None]
    /\ UNCHANGED <<running, detached_remove_raises>>

DirectNext ==
    \/ DirectPress
    \/ DirectMotion
    \/ DirectRelease
    \/ OpenImage
    \/ DirectTrigger
    \/ CloseDialog
    \/ Quit

SpecSlots == Init /\ [][DirectNext]_vars

----------------------------------------------------------------------------
(* Open Image applied to every small 2D integer array *)

NormDTypes == {"uint8", "int8", "uint16", "int16"}
NormValues(dt) == {DTypeLo(dt), 0, 1, DTypeHi(dt)}

\* The 1 x n arrays, n <= MaxLen, over the sampled values of each dtype.
NormArrays ==
    UNION {
      {[ndim |-> 2, dtype |-> dt, pix |-> <<row>>] :
          row \in UNION {[1..n -> NormValues(dt)] : n \in 1..MaxLen}} :
      dt \in NormDTypes}

NormFiles == {[name |-> "array", suffix |-> ".tif", data |-> a] : a \in NormArrays}

OpenArray ==
    /\ Interactive
    /\ \E f \in NormFiles :
         \E result \in Results :
            /\ browseFile(Some(f), result)
            /\ event' = [kind |-> result, pos |-> None]
    /\ UNCHANGED <<running, dialog, detached_remove_raises>>

SpecNorm == Init /\ [][OpenArray]_vars

----------------------------------------------------------------------------
(* Properties *)

\* The step is an in-axes press, an out-of-axes press.
PressInStep == event'.kind = "press" /\ event'.pos # None
PressOutStep == event'.kind = "press" /\ event'.pos = None

\* The two corners of a Rectangle's bounding box.
Corners(p) == {<<p.x, p.y>>, <<p.x + p.w, p.y + p.h>>}

\* C1: in every reachable state the Show Projection button is enabled only
\* if an image buffer is loaded and a committed rectangle exists.
C1_ButtonNeedsImageAndRect ==
    btn_enabled => (image # None /\ last_rect_patch # None)

C1_Witness ==
    /\ btn_enabled /\ image # None /\ last_rect_patch # None
    /\ event.kind = "press"

C2_Step ==
    /\ PressOutStep => UNCHANGED ctrl
    /\ (PressInStep /\ start_point = None) => start_point' = event'.pos
    /\ (PressInStep /\ start_point # None) =>
          /\ start_point' = None
          /\ last_rect_patch' # None
          /\ Corners(Val(last_rect_patch')) = {Val(start_point), Val(event'.pos)}
          /\ ax_patches' = {Val(last_rect_patch').id}

C3_LoadClearsSelection ==
    [][event'.kind = "ok" =>
          (start_point' = None /\ rect_patch' = None /\ last_rect_patch' = None)]_vars

C4_Step ==
    /\ event'.kind = "ok" => (~btn_enabled' /\ ax_patches' = {})
    /\ (PressInStep /\ start_point = None) =>
          /\ ~btn_enabled'
          /\ ax_patches' \cap PatchIds(last_rect_patch) = {}
    /\ (~btn_enabled /\ btn_enabled') =>
          /\ PressInStep /\ start_point # None
          /\ last_rect_patch' # None
          /\ PatchIds(last_rect_patch') \subseteq ax_patches'

C5_TriggerNoop ==
    [][(event'.kind = "trigger" /\ (image = None \/ last_rect_patch = None)) =>
          (dialog' = None /\ UNCHANGED ctrl)]_vars

C5_Witness ==
    /\ event.kind = "trigger" /\ dialog = None
    /\ image # None /\ last_rect_patch = None

\* The image rows and columns with index in [y0,y1) and [x0,x1).
CropRows(img, p) ==
    {r \in 0..(Height(img) - 1) : CropY0(p) <= r /\ r < CropY1(p)}
CropCols(img, p) ==
    {c \in 0..(Width(img) - 1) : CropX0(p) <= c /\ c < CropX1(p)}

SetMin(S) == CHOOSE m \in S : \A k \in S : m <= k

\* The exact sum of f over the finite set S.
RECURSIVE SumOver(_, _)
SumOver(S, f) ==
    IF S = {} THEN 0
    ELSE LET k == CHOOSE k \in S : TRUE IN f[k] + SumOver(S \ {k}, f)

\* One exact sum per image row in [y0,y1), over the image columns in [x0,x1).
ExactRowSums(img, p) ==
    LET rs == CropRows(img, p)
        cs == CropCols(img, p)
    IN  [i \in 1..Cardinality(rs) |->
            SumOver(cs, [c \in cs |-> img.pix[SetMin(rs) + i][c + 1]])]

\* The absolute values of the cropped pixels of the i-th cropped row add up
\* to at most 2^24: every partial sum is then a float32 value.
Float32Exact(img, p, i) ==
    LET rs == CropRows(img, p)
        cs == CropCols(img, p)
    IN  SumOver(cs, [c \in cs |-> Abs(img.pix[SetMin(rs) + i][c + 1])]) <= F32Exact

IsGrayExample ==
    /\ image = Some(Gray4x4)
    /\ CropX0(Val(last_rect_patch)) = 0 /\ CropX1(Val(last_rect_patch)) = 4
    /\ CropY0(Val(last_rect_patch)) = 1 /\ CropY1(Val(last_rect_patch)) = 3

\* C6 as claimed: for a single-channel image the projection handed to the
\* popup has one entry per image row in [y0,y1), in row order, each the sum
\* of that row's pixels over the columns [x0,x1); it is [22, 38] for the 4x4
\* array 0..15 with rows 1-3 and columns 0-4.
C6_RowSumsExact ==
    (dialog # None /\ Val(image).ndim = 2) =>
        /\ Val(dialog) = ExactRowSums(Val(image), Val(last_rect_patch))
        /\ IsGrayExample => Val(dialog) = <<22, 38>>

\* The largest distance a float32 accumulation of the i-th cropped row can
\* have from the exact sum: n * S / (2^24 - n) for n summed pixels whose
\* absolute values add up to S (every conversion and every addition rounds to
\* the nearest float32, relative error at most 2^-24, in any order of adding).
Float32Bound(img, p, i) ==
    LET rs == CropRows(img, p)
        cs == CropCols(img, p)
        n == Cardinality(cs)
        S == SumOver(cs, [c \in cs |-> Abs(img.pix[SetMin(rs) + i][c + 1])])
    IN  (n * S) \div (F32Exact - n)

IsWideExample ==
    /\ image = Some(Wide4x5)
    /\ CropX0(Val(last_rect_patch)) = 0 /\ CropX1(Val(last_rect_patch)) = 4
    /\ CropY0(Val(last_rect_patch)) = 1 /\ CropY1(Val(last_rect_patch)) = 3

\* C6 as amended, for a single-channel image of integer pixels: one entry per
\* image row in [y0,y1), in row order; the entry is the sum of that row's
\* pixels over the columns [x0,x1) whenever the absolute values of those
\* pixels add up to at most 2^24, and is otherwise within n * S / (2^24 - n)
\* of that sum (the sum is accumulated in float32); [22, 38] for the 4x4
\* example, and [16777216, 16] for rows <<16777216, 1, 0, 0>>, <<7, 7, 1, 1>>.
C6_RowSumsFloat32 ==
    (dialog # None /\ Val(image).ndim = 2) =>
        LET img == Val(image)
            p == Val(last_rect_patch)
        IN  /\ Len(Val(dialog)) = Cardinality(CropRows(img, p))
            /\ \A i \in 1..Len(Val(dialog)) :
                  /\ Float32Exact(img, p, i) =>
                        Val(dialog)[i] = ExactRowSums(img, p)[i]
                  /\ Abs(Val(dialog)[i] - ExactRowSums(img, p)[i])
                        <= Float32Bound(img, p, i)
            /\ IsGrayExample => Val(dialog) = <<22, 38>>
            /\ IsWideExample => Val(dialog) = <<16777216, 16>>

C6_Witness ==
    /\ dialog # None /\ IsGrayExample
    /\ Val(dialog) = <<22, 38>>

\* A display value is a number in [0,1].
InUnit(v) == v[1] = "q" /\ 0 <= v[2] /\ v[2] <= v[3]

\* C7: after a 2D integer image with max > min is loaded, every value of the
\* normalized display buffer lies in [0,1], the minimum pixel is shown as 0
\* and the maximum as 1.
C7_NormalizedInUnit ==
    (image # None /\ axes_image # None /\ Val(image).ndim = 2
        /\ ArrMax(Val(image)) > ArrMin(Val(image))) =>
        LET img == Val(image)
            shown == Val(axes_image)
        IN  \A r \in 1..Height(img) : \A c \in 1..Width(img) :
               /\ InUnit(shown.pix[r][c])
               /\ img.pix[r][c] = ArrMin(img) => shown.pix[r][c][2] = 0
               /\ img.pix[r][c] = ArrMax(img) =>
                     shown.pix[r][c][2] = shown.pix[r][c][3]

\* C8: after a 2D image with max = min is loaded, the display buffer is a
\* defined constant array: no nan or inf is handed to the renderer.
C8_FlatImageDefined ==
    (image # None /\ axes_image # None /\ Val(image).ndim = 2
        /\ ArrMax(Val(image)) = ArrMin(Val(image))) =>
        LET shown == Val(axes_image)
        IN  \A r \in 1..Height(shown) : \A c \in 1..Width(shown) :
               /\ shown.pix[r][c][1] = "q"
               /\ shown.pix[r][c] = shown.pix[1][1]

\* C9: a cancelled Open Image dialog leaves the whole UI state unchanged.
C9_CancelUnchanged ==
    [][event'.kind = "cancel" => (UNCHANGED ctrl /\ UNCHANGED <<running, dialog>>)]_vars

C9_Witness ==
    /\ event.kind = "cancel"
    /\ image # None /\ start_point # None /\ rect_patch # None

\* C10: a decode failure leaves the application running and interactive, and
\* image, selection state, button and status text as they were.
C10_DecodeFailureRecoverable ==
    [][event'.kind = "decode_error" =>
          (running' /\ dialog' = None /\ UNCHANGED ctrl)]_vars

C10_Witness ==
    /\ event.kind = "decode_error" /\ running
    /\ image # None /\ btn_enabled /\ last_rect_patch # None


\* The step is an in-axes motion, an out-of-axes motion.
MotionInStep == event'.kind = "motion" /\ event'.pos # None
MotionOutStep == event'.kind = "motion" /\ event'.pos = None

\* The Rectangle p runs from the point a to the point b.
RunsFromTo(p, a, b) ==
    /\ p.x = a[1] /\ p.y = a[2]
    /\ p.x + p.w = b[1] /\ p.y + p.h = b[2]

C11_Step ==
    /\ rect_patch' # rect_patch =>
          \/ /\ MotionInStep /\ start_point # None
             /\ rect_patch' # None
          \/ /\ PressInStep /\ start_point # None
             /\ rect_patch' = None
    /\ (MotionInStep /\ start_point # None) =>
          /\ rect_patch' # None
          /\ RunsFromTo(Val(rect_patch'), Val(start_point), Val(event'.pos))
    /\ (PressInStep /\ start_point # None) => rect_patch' = None

\* C11: a preview rectangle exists only while a start point is pending; only
\* an in-axes motion while Pending creates or updates it, with bounds from
\* the start point to the pointer position, and the committing press
\* discards it.
C11_PreviewOnlyWhilePending ==
    [](rect_patch # None => start_point # None) /\ [][C11_Step]_vars

\* The committed (persistent) outlines on the axes: every patch but the
\* preview.
CommittedOnAxes == ax_patches \ PatchIds(rect_patch)

\* C12: the axes hold at most one committed rectangle outline, and there is
\* no committed rectangle while a start point is pending.
C12_OneCommittedNoneWhilePending ==
    /\ Cardinality(CommittedOnAxes) <= 1
    /\ start_point # None => last_rect_patch = None

C13_Step ==
    /\ event'.kind = "release" => UNCHANGED ctrl
    /\ MotionOutStep => UNCHANGED ctrl
    /\ (MotionInStep /\ start_point = None) => UNCHANGED ctrl

\* C13: a release in any state, a motion while Idle and a motion or release
\* outside the axes leave image, start point, preview, committed rectangle,
\* button and status text unchanged.
C13_InertEvents == [][C13_Step]_vars

C13_Witness ==
    /\ event.kind = "motion" /\ event.pos # None
    /\ start_point = None /\ last_rect_patch # None /\ btn_enabled

SetMax(S) == CHOOSE m \in S : \A k \in S : m >= k

\* The integer nearest to c/2 between it and zero (c in half units).
TruncZ(c) ==
    CHOOSE k \in (-Abs(c))..Abs(c) :
        /\ 2 * Abs(k) <= Abs(c) /\ Abs(c) < 2 * Abs(k) + 2
        /\ k = 0 \/ ((k > 0) <=> (c > 0))

CornerXs(p) == {c[1] : c \in Corners(p)}
CornerYs(p) == {c[2] : c \in Corners(p)}

\* C14 as claimed: every committed rectangle has x0 < x1 and y0 < y1, for the
\* float corner points (smaller and larger coordinate) and for the
\* integer-truncated crop bounds.
C14_StrictlyOrdered ==
    last_rect_patch # None =>
        LET p == Val(last_rect_patch)
        IN  /\ SetMin(CornerXs(p)) < SetMax(CornerXs(p))
            /\ SetMin(CornerYs(p)) < SetMax(CornerYs(p))
            /\ CropX0(p) < CropX1(p)
            /\ CropY0(p) < CropY1(p)

\* C14 as amended: the crop bounds of every committed rectangle are the
\* smaller and the larger corner coordinate truncated toward zero, so that
\* x0 <= x1 and y0 <= y1 whatever the order of the two presses; they are
\* equal when the presses agree in that coordinate, or differ by less than
\* the truncation resolves.
C14_Ordered ==
    last_rect_patch # None =>
        LET p == Val(last_rect_patch)
        IN  /\ CropX0(p) = TruncZ(SetMin(CornerXs(p)))
            /\ CropX1(p) = TruncZ(SetMax(CornerXs(p)))
            /\ CropY0(p) = TruncZ(SetMin(CornerYs(p)))
            /\ CropY1(p) = TruncZ(SetMax(CornerYs(p)))
            /\ CropX0(p) <= CropX1(p)
            /\ CropY0(p) <= CropY1(p)

C14_Witness ==
    /\ event.kind = "press" /\ last_rect_patch # None
    /\ Val(last_rect_patch).w < 0 /\ Val(last_rect_patch).h = 0
    /\ CropX0(Val(last_rect_patch)) < CropX1(Val(last_rect_patch))
    /\ CropY0(Val(last_rect_patch)) = CropY1(Val(last_rect_patch))

\* The rows and columns of an H x W image that the rectangle p covers, with
\* its corner coordinates truncated toward zero.
CoveredRows(img, p) ==
    {r \in 0..(Height(img) - 1) :
        TruncZ(SetMin(CornerYs(p))) <= r /\ r < TruncZ(SetMax(CornerYs(p)))}
CoveredCols(img, p) ==
    {c \in 0..(Width(img) - 1) :
        TruncZ(SetMin(CornerXs(p))) <= c /\ c < TruncZ(SetMax(CornerXs(p)))}

\* C15: whatever committed rectangle the projection is computed for, also
\* one reaching outside the loaded image, the projection has one entry per
\* image row with index in [y0,y1) and each entry sums the image columns
\* with index in [x0,x1) only (exactly, when the absolute values of those
\* pixels add up to at most 2^24), the bounds being the corner coordinates
\* truncated toward zero.
C15_CropClamped ==
    dialog # None =>
        LET img == Val(image)
            p == Val(last_rect_patch)
            rs == CoveredRows(img, p)
            cs == CoveredCols(img, p)
        IN  /\ Len(Val(dialog)) = Cardinality(rs)
            /\ img.ndim = 2 =>
                 \A i \in 1..Cardinality(rs) :
                    LET row == img.pix[SetMin(rs) + i]
                    IN  SumOver(cs, [c \in cs |-> Abs(row[c + 1])]) <= F32Exact
                          => Val(dialog)[i] = SumOver(cs, [c \in cs |-> row[c + 1]])

C15_Witness ==
    /\ dialog # None
    /\ CropX1(Val(last_rect_patch)) > Width(Val(image))
    /\ CropY1(Val(last_rect_patch)) > Height(Val(image))
    /\ Len(Val(dialog)) > 0
    /\ Len(Val(dialog)) <
          CropY1(Val(last_rect_patch)) - CropY0(Val(last_rect_patch))

\* The ITU-R 601 luma of an RGB pixel in 16-bit fixed point, rounded to
\* nearest: the l with l <= (19595 R + 38470 G + 7471 B + 32768) / 65536 < l+1.
Luma601(px) ==
    CHOOSE l \in 0..255 :
        LET v == 19595 * px[1] + 38470 * px[2] + 7471 * px[3] + 32768
        IN  65536 * l <= v /\ v < 65536 * (l + 1)

ChannelSum(px) == px[1] + px[2] + px[3]

\* Sum of the luma, and of all channel values, of the covered pixels of the
\* i-th covered row.
RowLuma(img, p, i) ==
    LET rs == CoveredRows(img, p)
        cs == CoveredCols(img, p)
    IN  SumOver(cs, [c \in cs |-> Luma601(img.pix[SetMin(rs) + i][c + 1])])
RowChannels(img, p, i) ==
    LET rs == CoveredRows(img, p)
        cs == CoveredCols(img, p)
    IN  SumOver(cs, [c \in cs |-> ChannelSum(img.pix[SetMin(rs) + i][c + 1])])

\* C16 as claimed: for a multi-channel image the projection has one entry
\* per cropped row, each the sum of the luminance of the row's cropped
\* pixels, and (the crop holding at least one column) different from the sum
\* of all channel values of those pixels.
C16_LuminanceDiffers ==
    (dialog # None /\ Val(image).ndim > 2) =>
        LET img == Val(image)
            p == Val(last_rect_patch)
        IN  /\ Len(Val(dialog)) = Cardinality(CoveredRows(img, p))
            /\ \A i \in 1..Len(Val(dialog)) :
                  /\ Val(dialog)[i] = RowLuma(img, p, i)
                  /\ CoveredCols(img, p) # {} =>
                        Val(dialog)[i] # RowChannels(img, p, i)

\* C16 as amended: one entry per cropped row, each the sum of the luminance
\* of the row's cropped pixels; the entry is never larger than the sum of
\* all channel values of those pixels, and smaller whenever one of them has
\* channel values adding up to 2 or more.
C16_LuminanceSummed ==
    (dialog # None /\ Val(image).ndim > 2) =>
        LET img == Val(image)
            p == Val(last_rect_patch)
            rs == CoveredRows(img, p)
            cs == CoveredCols(img, p)
        IN  /\ Len(Val(dialog)) = Cardinality(rs)
            /\ \A i \in 1..Len(Val(dialog)) :
                  /\ Val(dialog)[i] = RowLuma(img, p, i)
                  /\ Val(dialog)[i] <= RowChannels(img, p, i)
                  /\ (\E c \in cs : ChannelSum(img.pix[SetMin(rs) + i][c + 1]) >= 2)
                        => Val(dialog)[i] < RowChannels(img, p, i)

C16_Witness ==
    /\ dialog # None /\ Val(image).ndim = 3
    /\ Len(Val(dialog)) = 1
    /\ Val(dialog)[1] = 18
    /\ RowChannels(Val(image), Val(last_rect_patch), 1) = 60

\* The status text for the Rectangle p: its two corners as integers.
TextOf(p) == RectText(p.x, p.y, p.x + p.w, p.y + p.h)

\* C17: the status label shows "Mouse: ", or the start point of the
\* selection in progress, or the coordinates of the live preview or of the
\* committed rectangle; right after a press has committed a rectangle it
\* shows the corner coordinates of that rectangle.
C17_LabelShowsRectangle ==
    /\ \/ coord_label = MouseText
       \/ start_point # None /\ rect_patch = None
            /\ coord_label = StartText(Val(start_point)[1], Val(start_point)[2])
       \/ start_point # None /\ rect_patch # None
            /\ coord_label = TextOf(Val(rect_patch))
       \/ start_point = None /\ last_rect_patch # None
            /\ coord_label = TextOf(Val(last_rect_patch))
    /\ (event.kind = "press" /\ event.pos # None /\ start_point = None) =>
          coord_label = TextOf(Val(last_rect_patch))

\* C18: the rectangles the fields rect_patch and last_rect_patch refer to
\* are exactly the patches drawn on the image axes.
C18_FieldsMatchAxes ==
    ax_patches = PatchIds(rect_patch) \cup PatchIds(last_rect_patch)

\* C19: whenever a projection is computed, the integer crop bounds lie inside
\* the loaded H x W image: 0 <= x0 <= x1 <= W and 0 <= y0 <= y1 <= H.
C19_CropInsideImage ==
    dialog # None =>
        LET img == Val(image)
            p == Val(last_rect_patch)
        IN  /\ 0 <= CropX0(p) /\ CropX0(p) <= CropX1(p) /\ CropX1(p) <= Width(img)
            /\ 0 <= CropY0(p) /\ CropY0(p) <= CropY1(p) /\ CropY1(p) <= Height(img)

\* The step computes a projection and opens the popup; the step dismisses it.
ProjectionStep ==
    event'.kind = "trigger" /\ image # None /\ last_rect_patch # None
DismissStep == event'.kind = "close"

C20_Step ==
    /\ ProjectionStep => (dialog' # None /\ UNCHANGED ctrl)
    /\ DismissStep => (dialog' = None /\ UNCHANGED ctrl)
    /\ (ProjectionStep /\ event.kind = "close") =>
          \* triggered again right after the popup was dismissed: the sequence
          \* depends on image and committed rectangle alone, which are those
          \* of the previous trigger
          /\ Len(Val(dialog')) = Cardinality(CoveredRows(Val(image), Val(last_rect_patch)))
          /\ image' = image /\ last_rect_patch' = last_rect_patch

\* C20: computing and showing a projection leaves image (contents and
\* channel count), start point, preview, committed rectangle, button and
\* status text as they were, and dismissing the popup drops the sequence and
\* changes nothing else, so that a second trigger computes from the same
\* state.
C20_TriggerReadOnly == [][C20_Step]_vars

C20_Witness ==
    /\ event.kind = "close" /\ dialog = None
    /\ image # None /\ Val(image).ndim = 3
    /\ last_rect_patch # None /\ btn_enabled
============================================================================
